---- MODULE Spec2Model ----
(***************************************************************************)
(* Acquisition pipeline of the hydrogen-news collector (version7 and its   *)
(* sibling folders): the fetchers, the SourceFetcherFactory and the        *)
(* FetcherManager.                                                         *)
(*                                                                         *)
(* Text values are modelled as sequences: a url is a sequence of           *)
(* characters (so that str.startswith is a prefix test), a title is a      *)
(* sequence of tokens (markup tags, blanks, words), a source name is a     *)
(* sequence of words.  The empty sequence is the empty string.             *)
(***************************************************************************)
EXTENDS Integers, Sequences, FiniteSets, TLC

VARIABLES
    registry,        \* SourceFetcherFactory._fetchers: the registered type tags
    NEWS_SOURCES,    \* config.NEWS_SOURCES: the configuration entries, in dict order
    configModule,    \* what "from config import ..." finds: "full", "no_keywords", "missing"
    fetchers,        \* FetcherManager.fetchers
    pc,              \* position of fetch_all_articles: "idle", "loop", "done" or "raised"
    args,            \* fetch_all_articles: max_per_source and max_per_keyword
    idx,             \* fetch_all_articles: index of the next fetcher of the for loop
    all_articles,    \* fetch_all_articles: the local list all_articles
    returned,        \* per fetcher, the list its fetch call returned (<<>> if none)
    invoked,         \* per fetcher, the sequence of call shapes it was invoked with
    threw,           \* per fetcher, TRUE iff its fetch call raised
    unique_articles, \* fetch_all_articles: the returned list
    call,            \* the last direct call of a fetcher method, with its outcome
    made,            \* the last factory call, with its outcome
    log,             \* the records written by the loggers and to logs/failed_sources.txt
    logsDir,         \* TRUE iff logs/failed_sources.txt can be opened for appending
    sourceManager    \* the version4 SourceManager and its fetch_all_articles call

vars == <<registry, NEWS_SOURCES, configModule, fetchers, pc, args, idx, all_articles,
          returned, invoked, threw, unique_articles, call, made, log, logsDir,
          sourceManager>>

(***************************************************************************)
(* Bounds of the model.                                                    *)
(***************************************************************************)
MaxEntries == 2      \* entries of a feed, blocks of a page, items of a response
MaxArticles == 2     \* largest max_articles / max_per_keyword passed
MaxKeywords == 2     \* length of a keyword list
MaxFetchers == 3     \* fetchers registered with one manager
MaxSources == 2      \* entries of NEWS_SOURCES

(***************************************************************************)
(* Text helpers (Python str and list built-ins as the code uses them).     *)
(***************************************************************************)
Min(a, b) == IF a <= b THEN a ELSE b

\* s.startswith(p)
StartsWith(s, p) == Len(s) >= Len(p) /\ SubSeq(s, 1, Len(p)) = p

\* s[:n] of a Python list or str (a negative n counts from the end)
Slice(s, n) == IF n >= 0 THEN SubSeq(s, 1, Min(n, Len(s)))
               ELSE SubSeq(s, 1, IF Len(s) + n >= 0 THEN Len(s) + n ELSE 0)

\* s[n:] for n >= 0
Drop(s, n) == SubSeq(s, Min(n, Len(s)) + 1, Len(s))

\* s.find(p) + 1: the first position where p occurs in s, 0 if none
Find(s, p) ==
    LET hits == {i \in 1..(Len(s) - Len(p) + 1) : SubSeq(s, i, i + Len(p) - 1) = p}
    IN IF hits = {} THEN 0 ELSE CHOOSE i \in hits : \A j \in hits : i <= j

\* s.split(p)[0]
Before(s, p) == IF Find(s, p) = 0 THEN s ELSE SubSeq(s, 1, Find(s, p) - 1)

\* s.split(p)[1], for an s in which p occurs
After(s, p) == Before(Drop(s, Find(s, p) + Len(p) - 1), p)

RECURSIVE LStrip(_, _)
\* s.lstrip(c)
LStrip(s, c) == IF s # <<>> /\ Head(s) = c THEN LStrip(Tail(s), c) ELSE s

RECURSIVE RStrip(_, _)
\* s.rstrip(c)
RStrip(s, c) == IF s # <<>> /\ s[Len(s)] = c THEN RStrip(SubSeq(s, 1, Len(s) - 1), c) ELSE s

\* element.get_text(strip=True): blanks at both ends removed
Strip(s) == RStrip(LStrip(s, " "), " ")

\* s.replace('<b>', '').replace('</b>', '')
RemoveBold(s) == SelectSeq(s, LAMBDA t : t \notin {"<b>", "</b>"})

\* s.lower(), word by word (a source name is a sequence of words)
LowerWord(w) == CASE w = "Naver" -> "naver"
                  [] w = "Google" -> "google"
                  [] w = "Bing" -> "bing"
                  [] OTHER -> w

\* 'word' in s.lower(), for the words 'naver' and 'google'
ContainsLower(s, word) == \E i \in 1..Len(s) : LowerWord(s[i]) = word

(***************************************************************************)
(* Text values used as inputs.                                             *)
(***************************************************************************)
HTTP == <<"h", "t", "t", "p", ":", "/", "/">>
HTTPS == <<"h", "t", "t", "p", "s", ":", "/", "/">>
UrlA == HTTP \o <<"a">>
UrlB == HTTPS \o <<"b">>
UrlFtp == <<"f", "t", "p", ":", "/", "/", "c">>
UrlRel == <<"/", "p">>
UrlBare == <<"q">>
UrlHttpx == <<"h", "t", "t", "p", "x">>
UrlRedirect == <<"/", "u", "r", "l", "?", "q", "=">> \o UrlA \o <<"&", "s">>
UrlSearch == <<"/", "s", "e", "a", "r", "c", "h">>
PageUrl == HTTPS \o <<"b", "/", "n", "/">>
UrlC == HTTP \o <<"c">>
UrlD == HTTPS \o <<"d">>
UrlE == HTTP \o <<"e">>

DefaultTitle == <<"NoTitle">>

\* The fixed Hangul names passed by NaverFetcher.__init__ and
\* GoogleFetcher.__init__, transliterated word by word.
NaverName == <<"neibeo", "nyuseu">>
GoogleName == <<"gugeul", "nyuseu">>

\* an article dict; keyword is <<>> for an article without the key
Article(title, url, source, keyword) ==
    [title |-> title, url |-> url, source |-> source, keyword |-> keyword]

(***************************************************************************)
(* BaseSourceFetcher.validate_article                                      *)
(***************************************************************************)
validate_article(article) ==
    /\ article.title # <<>>
    /\ article.url # <<>>
    /\ article.source # <<>>
    /\ (StartsWith(article.url, HTTP) \/ StartsWith(article.url, HTTPS))

\* a filter that keeps every article
MutValidateNothing(articles) == articles

\* the articles of a list that pass validate_article, in order
Validated(articles) == SelectSeq(articles, validate_article)

(***************************************************************************)
(* Fetcher objects.  cls is the class, source_name and url the attributes  *)
(* set by BaseSourceFetcher.__init__, client_id and client_secret the      *)
(* NaverFetcher credentials (<<>> when unset).                             *)
(***************************************************************************)
\* the CSS selectors of a WebScraperFetcher ("" is the empty string)
Selectors(article_selector, title_selector, link_selector) ==
    [article_selector |-> article_selector, title_selector |-> title_selector,
     link_selector |-> link_selector]

Fetcher(cls, source_name, url, client_id, client_secret) ==
    [cls |-> cls, source_name |-> source_name, url |-> url,
     client_id |-> client_id, client_secret |-> client_secret,
     selectors |-> Selectors("", "", "")]

\* the outcome of a fetch call: raised (with the class of the exception in
\* error), the returned list, the keywords requested, the requests.get and
\* time.sleep calls in the order made, and the records logged
Outcome(raised, articles, requests) ==
    [raised |-> raised, error |-> "", articles |-> articles, requests |-> requests,
     trace |-> [i \in 1..Len(requests) |-> "request"], log |-> <<>>]

\* the outcome of a call that raises an exception of class error
Raises(error) == [Outcome(TRUE, <<>>, <<>>) EXCEPT !.error = error]

\* an outcome together with the records logged on the way to it
Logged(out, lines) == [out EXCEPT !.log = lines]

(***************************************************************************)
(* Logging.  A record is written by a logger (warning and error records    *)
(* and the log_success record are modelled) or appended to the file        *)
(* logs/failed_sources.txt; source is the source name the record carries,  *)
(* text the message, count the number of articles of a success record.     *)
(***************************************************************************)
LogLine(sink, level, source, text) ==
    [sink |-> sink, level |-> level, source |-> source, text |-> text, count |-> 0]

\* BaseSourceFetcher.log_success
log_success(self, count) ==
    <<[LogLine("logger", "info", self.source_name, "success") EXCEPT !.count = count]>>

\* an except clause of log_error that lets the failed append escape
MutLogWriteReraise(failed) == [propagate |-> failed, logged |-> FALSE]

\* "except Exception as log_error" of log_error: failed is TRUE when the
\* append to the failure file raised; the failure is logged and swallowed
LogWriteExcept(failed) == [propagate |-> FALSE, logged |-> failed]

\* TRUE iff a call of log_error ends with an exception
LogErrorRaises == LogWriteExcept(~logsDir).propagate

\* BaseSourceFetcher.log_error: the error record, then the line appended to
\* the failure file, or the record of the failed append
log_error(self, error) ==
    <<LogLine("logger", "error", self.source_name, error)>>
    \o (IF logsDir THEN <<LogLine("failed_sources.txt", "line", self.source_name, error)>>
        ELSE IF LogWriteExcept(TRUE).logged
        THEN <<LogLine("logger", "error", self.source_name, "log write failed")>>
        ELSE <<>>)

(***************************************************************************)
(* RSSFetcher.fetch_articles.  A feed is what feedparser.parse gives:      *)
(* raises (the parse throws) and entries; an entry has an optional title   *)
(* and an optional link.                                                   *)
(***************************************************************************)
Entry(has_title, title, has_link, link) ==
    [has_title |-> has_title, title |-> title, has_link |-> has_link, link |-> link]

\* the article dict built from one entry
RSSArticle(self, entry) ==
    Article(IF entry.has_title THEN entry.title ELSE DefaultTitle,
            IF entry.has_link THEN entry.link ELSE <<>>,
            self.source_name, <<>>)

\* a fetch that forgets the [:max_articles] slice
MutRSSNoLimit(entries, max_articles) == entries

\* feed.entries[:max_articles]
RSSLimit(entries, max_articles) == Slice(entries, max_articles)

RSSFetcher_fetch_articles(self, feed, max_articles) ==
    IF feed.raises
    THEN Logged(Outcome(LogErrorRaises, <<>>, <<>>), log_error(self, "parse error"))
    ELSE IF feed.entries = <<>>
    THEN Logged(Outcome(FALSE, <<>>, <<>>),
                <<LogLine("logger", "warning", self.source_name, "no entries in feed")>>)
    ELSE LET cut == RSSLimit(feed.entries, max_articles)
             built == [i \in 1..Len(cut) |-> RSSArticle(self, cut[i])]
         IN Logged(Outcome(FALSE, Validated(built), <<>>),
                   log_success(self, Len(Validated(built))))

(***************************************************************************)
(* WebScraperFetcher.  A page is the response status and the blocks the    *)
(* article selector matches; a block has an optional title element with    *)
(* its text, and an optional link element with its href (<<>>: no href).   *)
(***************************************************************************)
Block(has_title, title, has_link, href) ==
    [has_title |-> has_title, title |-> title, has_link |-> has_link, href |-> href]

\* '/'.join(url.split('/')[:3])
BaseUrl(url) ==
    LET slashes == {i \in 1..Len(url) : url[i] = "/"}
        third == {i \in slashes : Cardinality({j \in slashes : j <= i}) = 3}
    IN IF third = {} THEN url ELSE SubSeq(url, 1, (CHOOSE i \in third : TRUE) - 1)

\* the relative-to-absolute conversion of _parse_article
AbsoluteUrl(self, url) ==
    IF StartsWith(url, <<"/">>) THEN BaseUrl(self.url) \o url
    ELSE IF ~StartsWith(url, <<"h", "t", "t", "p">>)
         THEN RStrip(self.url, "/") \o <<"/">> \o LStrip(url, "/")
         ELSE url

\* WebScraperFetcher.__init__ (mail_version8): the selectors are stored as given
WebScraperFetcher_init(source_name, url, article_selector, title_selector, link_selector) ==
    [Fetcher("WebScraperFetcher", source_name, url, <<>>, <<>>)
        EXCEPT !.selectors = Selectors(article_selector, title_selector, link_selector)]

\* WebScraperFetcher._parse_article: none is TRUE when it returns None,
\* raised when select_one is given an empty selector and raises
WebScraperFetcher_parse_article(self, block) ==
    IF self.selectors.title_selector = "" \/ (block.has_title /\ self.selectors.link_selector = "")
    THEN [none |-> TRUE, raised |-> TRUE, article |-> Article(<<>>, <<>>, <<>>, <<>>)]
    ELSE IF ~block.has_title \/ ~block.has_link \/ block.href = <<>>
    THEN [none |-> TRUE, raised |-> FALSE, article |-> Article(<<>>, <<>>, <<>>, <<>>)]
    ELSE [none |-> FALSE, raised |-> FALSE,
          article |-> Article(Strip(block.title), AbsoluteUrl(self, block.href),
                              self.source_name, <<>>)]

\* article_elements[:max_articles]
WebLimit(blocks, max_articles) == Slice(blocks, max_articles)

\* a loop that stops at the first block _parse_article gives None for
MutParsedUntilMissing(self, blocks) ==
    LET parsed == [i \in 1..Len(blocks) |-> WebScraperFetcher_parse_article(self, blocks[i])]
        missing == {i \in 1..Len(blocks) : parsed[i].none}
        stop == IF missing = {} THEN Len(blocks) + 1
                ELSE CHOOSE i \in missing : \A j \in missing : i <= j
    IN [i \in 1..(stop - 1) |-> parsed[i].article]

\* the parsed blocks of a list that are not None, in order
ParsedBlocks(self, blocks) ==
    LET parsed == [i \in 1..Len(blocks) |-> WebScraperFetcher_parse_article(self, blocks[i])]
        kept == SelectSeq(parsed, LAMBDA p : ~p.none)
    IN [i \in 1..Len(kept) |-> kept[i].article]

\* the exception the try block of a web fetch ends with ("" if none):
\* requests.get or raise_for_status fails, or soup.select is given an empty
\* selector
WebFetchError(self, page) ==
    CASE page.status = "http_error" -> "HTTP error"
      [] page.status = "net_error" -> "network error"
      [] self.selectors.article_selector = "" -> "unexpected error"
      [] OTHER -> ""

\* mail_version8: fetch_articles, which validates every parsed article
WebScraperFetcher_fetch_articles(self, page, max_articles) ==
    IF WebFetchError(self, page) # ""
    THEN Logged(Outcome(LogErrorRaises, <<>>, <<>>),
                <<LogLine("logger", "error", self.source_name, WebFetchError(self, page))>>
                \o log_error(self, WebFetchError(self, page)))
    ELSE IF page.blocks = <<>>
    THEN Logged(Outcome(FALSE, <<>>, <<>>),
                <<LogLine("logger", "warning", self.source_name, "no article found")>>)
    ELSE LET articles == Validated(ParsedBlocks(self, WebLimit(page.blocks, max_articles)))
         IN Logged(Outcome(FALSE, articles, <<>>), log_success(self, Len(articles)))

\* version7: fetch, which appends every parsed article
WebScraperFetcher_fetch(self, page, max_articles) ==
    IF WebFetchError(self, page) # ""
    THEN Logged(Outcome(FALSE, <<>>, <<>>),
                <<LogLine("logger", "error", self.source_name, WebFetchError(self, page))>>)
    ELSE IF page.blocks = <<>>
    THEN Logged(Outcome(FALSE, <<>>, <<>>),
                <<LogLine("logger", "warning", self.source_name, "no article found")>>)
    ELSE LET cut == WebLimit(page.blocks, max_articles)
             failed == SelectSeq(cut, LAMBDA b : WebScraperFetcher_parse_article(self, b).raised)
             articles == ParsedBlocks(self, cut)
         IN Logged(Outcome(FALSE, articles, <<>>),
                   [i \in 1..Len(failed) |->
                       LogLine("logger", "warning", self.source_name, "article parse failed")]
                   \o log_success(self, Len(articles)))

(***************************************************************************)
(* NaverFetcher.fetch_articles_by_keywords.  The response to one request   *)
(* is kind "net_error" (requests.get raises) or "http" with a status code, *)
(* json_ok (response.json() parses) and the items of the body; an item     *)
(* has a title and a link ('' when the key is absent).                     *)
(***************************************************************************)
RawItem(title, link) == [title |-> title, link |-> link]

NaverResponse(kind, status, json_ok, items) ==
    [kind |-> kind, status |-> status, json_ok |-> json_ok, items |-> items]

\* a label without the keyword
MutLabelWithoutKeyword(self, keyword) == self.source_name

\* the keyword-tagged source label f"{self.source_name}({keyword})"
SourceLabel(self, keyword) == self.source_name \o <<"(">> \o keyword \o <<")">>

\* a credentials test that looks at the client id only
MutCredentialsIdOnly(self) == self.client_id # <<>>

\* "if not self.client_id or not self.client_secret" is false
HasCredentials(self) == self.client_id # <<>> /\ self.client_secret # <<>>

\* the article dict built from one item of the response
NaverArticle(self, keyword, item) ==
    Article(RemoveBold(item.title), item.link, SourceLabel(self, keyword), keyword)

\* the body of the try block for one keyword: exc is TRUE when it throws,
\* articles are the articles it appended to all_articles
\* the result of the try block for one keyword: exc is TRUE when it throws
\* (error: the exception), articles are the articles it appended to
\* all_articles, log the records it logged
Body(exc, error, articles, lines) ==
    [exc |-> exc, error |-> error, articles |-> articles, log |-> lines]

\* the record logged for a status code the loop handles itself
NaverStatusLine(status) ==
    CASE status = 401 -> "authentication failed (401)"
      [] status = 403 -> "access denied (403)"
      [] OTHER -> "request limit exceeded (429)"

\* a status branch that logs the same cause for the three codes
MutNaverSameCause(status) == "API error"

\* the cause handed to log_error for such a status code
NaverStatusCause(status) ==
    CASE status = 401 -> "API authentication failed"
      [] status = 403 -> "API access denied"
      [] OTHER -> "API call limit exceeded"

\* the body of the try block for one keyword
NaverRequest(self, keyword, resp, max_per_keyword) ==
    IF resp.kind = "net_error" THEN Body(TRUE, "connection error", <<>>, <<>>)
    ELSE IF resp.status \in {401, 403, 429}
    THEN Body(LogErrorRaises, "", <<>>,
              <<LogLine("logger", "error", self.source_name, NaverStatusLine(resp.status))>>
              \o log_error(self, NaverStatusCause(resp.status)))
    ELSE IF resp.status >= 400 THEN Body(TRUE, "HTTP error", <<>>, <<>>)
    ELSE IF ~resp.json_ok THEN Body(TRUE, "JSON error", <<>>, <<>>)
    ELSE IF resp.items = <<>>
    THEN Body(FALSE, "", <<>>,
              <<LogLine("logger", "warning", self.source_name, "no search result")>>)
    ELSE Body(FALSE, "",
              Validated([i \in 1..Len(resp.items) |->
                            NaverArticle(self, keyword, resp.items[i])]), <<>>)

\* a keyword loop whose except clauses re-raise
MutNaverReraise(self, body) ==
    [propagate |-> body.exc, error |-> body.error, articles |-> body.articles,
     log |-> body.log]

\* the except clauses of the keyword loop: log, log_error, continue
NaverExcept(self, body) ==
    [propagate |-> body.exc /\ LogErrorRaises, error |-> "", articles |-> body.articles,
     log |-> IF body.exc
             THEN body.log
                  \o <<LogLine("logger", "error", self.source_name, "keyword request failed")>>
                  \o log_error(self, body.error)
             ELSE body.log]

\* the outcome after one more keyword
AfterKeyword(acc, keyword, caught) ==
    [Outcome(caught.propagate, acc.articles \o caught.articles,
             Append(acc.requests, keyword))
        EXCEPT !.error = caught.error, !.log = acc.log \o caught.log]

RECURSIVE NaverLoop(_, _, _, _, _, _)
\* the for loop over the keywords, from the k-th keyword on
NaverLoop(self, keywords, responses, max_per_keyword, k, acc) ==
    IF k > Len(keywords) THEN acc
    ELSE LET caught == NaverExcept(self, NaverRequest(self, keywords[k], responses[k],
                                                      max_per_keyword))
             next == AfterKeyword(acc, keywords[k], caught)
         IN IF caught.propagate THEN next
            ELSE NaverLoop(self, keywords, responses, max_per_keyword, k + 1, next)

\* the log_success call after the loop
Finished(self, out) ==
    IF out.raised THEN out
    ELSE Logged(out, out.log \o log_success(self, Len(out.articles)))

NaverFetcher_fetch_articles_by_keywords(self, keywords, responses, max_per_keyword) ==
    IF ~HasCredentials(self)
    THEN Logged(Outcome(FALSE, <<>>, <<>>),
                <<LogLine("logger", "error", self.source_name, "no API key")>>)
    ELSE Finished(self, NaverLoop(self, keywords, responses, max_per_keyword, 1,
                                  Outcome(FALSE, <<>>, <<>>)))

(***************************************************************************)
(* GoogleFetcher.fetch_articles_by_keywords.  The response to one request  *)
(* is kind "net_error" or "http" with a status code and the blocks that    *)
(* each of the three selectors matches on the results page.                *)
(***************************************************************************)
GoogleResponse(kind, status, sel1, sel2, sel3) ==
    [kind |-> kind, status |-> status, sel1 |-> sel1, sel2 |-> sel2, sel3 |-> sel3]

\* the three selectors tried in turn, each cut to max_per_keyword
GoogleNewsItems(resp, max_per_keyword) ==
    IF Slice(resp.sel1, max_per_keyword) # <<>> THEN Slice(resp.sel1, max_per_keyword)
    ELSE IF Slice(resp.sel2, max_per_keyword) # <<>> THEN Slice(resp.sel2, max_per_keyword)
    ELSE Slice(resp.sel3, max_per_keyword)

\* the redirect clean-up: url.split('/url?q=')[1].split('&')[0]
GoogleCleanUrl(url) ==
    IF StartsWith(url, <<"/", "u", "r", "l", "?", "q", "=">>)
    THEN Before(After(url, <<"/", "u", "r", "l", "?", "q", "=">>), <<"&">>)
    ELSE url

\* one news item: skip is TRUE when the title or the link element is missing
GoogleArticle(self, keyword, block) ==
    IF ~block.has_title \/ ~block.has_link
    THEN [skip |-> TRUE, article |-> Article(<<>>, <<>>, <<>>, <<>>)]
    ELSE [skip |-> FALSE,
          article |-> Article(Strip(block.title), GoogleCleanUrl(block.href),
                              SourceLabel(self, keyword), keyword)]

\* validate_article(article) and not url.startswith('/search')
GoogleKeep(p) ==
    /\ ~p.skip
    /\ validate_article(p.article)
    /\ ~StartsWith(p.article.url, <<"/", "s", "e", "a", "r", "c", "h">>)

\* the body of the try block for one keyword
GoogleRequest(self, keyword, resp, max_per_keyword) ==
    IF resp.kind = "net_error" THEN Body(TRUE, "connection error", <<>>, <<>>)
    ELSE IF resp.status >= 400 THEN Body(TRUE, "HTTP error", <<>>, <<>>)
    ELSE LET items == GoogleNewsItems(resp, max_per_keyword)
             parsed == [i \in 1..Len(items) |-> GoogleArticle(self, keyword, items[i])]
             kept == SelectSeq(parsed, GoogleKeep)
         IN IF items = <<>>
            THEN Body(FALSE, "", <<>>,
                      <<LogLine("logger", "warning", self.source_name, "no search result")>>)
            ELSE Body(FALSE, "", [i \in 1..Len(kept) |-> kept[i].article], <<>>)

\* the except clause of the keyword loop: log, log_error, continue
GoogleExcept(self, body) ==
    [propagate |-> body.exc /\ LogErrorRaises, error |-> "", articles |-> body.articles,
     log |-> IF body.exc
             THEN body.log
                  \o <<LogLine("logger", "error", self.source_name, "keyword request failed")>>
                  \o log_error(self, body.error)
             ELSE body.log]

RECURSIVE GoogleLoop(_, _, _, _, _, _)
\* the for loop over the keywords, from the k-th keyword on
GoogleLoop(self, keywords, responses, max_per_keyword, k, acc) ==
    IF k > Len(keywords) THEN acc
    ELSE LET caught == GoogleExcept(self, GoogleRequest(self, keywords[k], responses[k],
                                                        max_per_keyword))
             next == AfterKeyword(acc, keywords[k], caught)
         IN IF caught.propagate THEN next
            ELSE GoogleLoop(self, keywords, responses, max_per_keyword, k + 1, next)

GoogleFetcher_fetch_articles_by_keywords(self, keywords, responses, max_per_keyword) ==
    Finished(self, GoogleLoop(self, keywords, responses, max_per_keyword, 1,
                              Outcome(FALSE, <<>>, <<>>)))

(***************************************************************************)
(* APIFetcher.fetch_articles and the fetchers a caller may define itself:  *)
(* CustomFetcher (a BaseSourceFetcher subclass with fetch_articles only)   *)
(* and CustomAPIFetcher (an APIFetcher subclass), whose fetch calls return *)
(* or raise as their author wrote them.                                    *)
(***************************************************************************)
\* a limit-based fetch of an API fetcher that returns an empty list
MutAPIReturnsEmpty(self, max_articles) == Outcome(FALSE, <<>>, <<>>)

APIFetcher_fetch_articles(self, max_articles) == Raises("NotImplementedError")

\* hasattr(fetcher, 'fetch_articles_by_keywords')
HasKeywordMethod(fetcher) ==
    fetcher.cls \in {"NaverFetcher", "GoogleFetcher", "CustomAPIFetcher"}

(***************************************************************************)
(* The configuration module: the keyword lists and limits it exports.      *)
(***************************************************************************)
NAVER_KEYWORDS == <<<<"k1">>, <<"k2">>>>
GOOGLE_KEYWORDS == <<<<"k2">>>>
MAX_NAVER_PER_KEYWORD == 2
MAX_GOOGLE_PER_KEYWORD == 1

(***************************************************************************)
(* What the sources answer during a run of the manager.                    *)
(***************************************************************************)
EntryA1 == Entry(TRUE, <<"t1">>, TRUE, UrlA)
EntryB2 == Entry(TRUE, <<"t2">>, TRUE, UrlB)

\* a feed of five entries, the third with an empty title
ScenarioFeed ==
    [raises |-> FALSE,
     entries |-> <<EntryA1, EntryB2, Entry(TRUE, <<>>, TRUE, UrlE),
                   Entry(TRUE, <<"t1">>, TRUE, UrlC), Entry(TRUE, <<"t2">>, TRUE, UrlD)>>]

\* a page of two matched blocks, the first with the url of a feed entry
ScenarioPage ==
    [status |-> "ok",
     blocks |-> <<Block(TRUE, <<"t2">>, TRUE, UrlB), Block(TRUE, <<"t1">>, TRUE, UrlE)>>]

\* a max_per_source above the size of every feed and page
ScenarioLimit == 10

RunFeeds == {[raises |-> FALSE, entries |-> <<EntryA1, EntryB2>>],
             [raises |-> FALSE, entries |-> <<Entry(TRUE, <<>>, TRUE, UrlA), EntryB2>>],
             [raises |-> TRUE, entries |-> <<>>],
             ScenarioFeed}

RunPages == {[status |-> "ok", blocks |-> <<Block(TRUE, <<"t2">>, TRUE, UrlA)>>],
             [status |-> "net_error", blocks |-> <<>>],
             ScenarioPage}

RunNaverResponses ==
    {NaverResponse("http", 200, TRUE, <<RawItem(<<"<b>", "t2", "</b>">>, UrlB)>>),
     NaverResponse("net_error", 0, FALSE, <<>>)}

RunGoogleResponses ==
    {GoogleResponse("http", 200, <<Block(TRUE, <<"t1">>, TRUE, UrlRedirect)>>, <<>>, <<>>),
     GoogleResponse("http", 429, <<>>, <<>>, <<>>)}

\* what a caller-defined fetcher may do: raise, or return any list of dicts
CustomOutcomes ==
    {Raises("RuntimeError"),
     Outcome(FALSE, <<Article(<<"t2">>, UrlA, <<"c">>, <<>>)>>, <<>>),
     Outcome(FALSE, <<Article(<<"t1">>, UrlB, <<"c">>, <<>>),
                      Article(<<"t1">>, <<>>, <<"c">>, <<>>),
                      Article(<<"t2">>, UrlB, <<"c">>, <<>>)>>, <<>>)}

\* the sequences of length n over a set
SeqsOfLen(S, n) == [1..n -> S]

\* the outcomes a call of fetcher.fetch_articles(max_articles) can have
FetchArticlesOutcomes(fetcher, max_articles) ==
    CASE fetcher.cls = "RSSFetcher" ->
            {RSSFetcher_fetch_articles(fetcher, feed, max_articles) : feed \in RunFeeds}
      [] fetcher.cls = "WebScraperFetcher" ->
            {WebScraperFetcher_fetch_articles(fetcher, page, max_articles) : page \in RunPages}
      [] fetcher.cls \in {"NaverFetcher", "GoogleFetcher", "CustomAPIFetcher"} ->
            {APIFetcher_fetch_articles(fetcher, max_articles)}
      [] OTHER -> CustomOutcomes

\* the outcomes a call of fetcher.fetch_articles_by_keywords(keywords, max_per_keyword) can have
FetchByKeywordsOutcomes(fetcher, keywords, max_per_keyword) ==
    CASE fetcher.cls = "NaverFetcher" ->
            {NaverFetcher_fetch_articles_by_keywords(fetcher, keywords, rs, max_per_keyword) :
                rs \in SeqsOfLen(RunNaverResponses, Len(keywords))}
      [] fetcher.cls = "GoogleFetcher" ->
            {GoogleFetcher_fetch_articles_by_keywords(fetcher, keywords, rs, max_per_keyword) :
                rs \in SeqsOfLen(RunGoogleResponses, Len(keywords))}
      [] OTHER -> CustomOutcomes

(***************************************************************************)
(* FetcherManager                                                          *)
(***************************************************************************)
\* a test that forgets "if url"
MutUrlNotSeen(article, seen_urls) == article.url \notin seen_urls

\* "if url and url not in seen_urls", with url = article.get('url', '')
UrlIsNew(article, seen_urls) == article.url # <<>> /\ article.url \notin seen_urls

RECURSIVE MutRemoveLoopFront(_, _, _)
\* a loop that inserts each new article at the front of unique_articles
MutRemoveLoopFront(articles, seen_urls, unique) ==
    IF articles = <<>> THEN unique
    ELSE LET article == Head(articles)
         IN IF article.url # <<>> /\ article.url \notin seen_urls
            THEN MutRemoveLoopFront(Tail(articles), seen_urls \cup {article.url},
                                    <<article>> \o unique)
            ELSE MutRemoveLoopFront(Tail(articles), seen_urls, unique)

RECURSIVE RemoveLoop(_, _, _)
\* the for loop of _remove_duplicates, with seen_urls and unique_articles
RemoveLoop(articles, seen_urls, unique) ==
    IF articles = <<>> THEN unique
    ELSE LET article == Head(articles)
         IN IF UrlIsNew(article, seen_urls)
            THEN RemoveLoop(Tail(articles), seen_urls \cup {article.url},
                            Append(unique, article))
            ELSE RemoveLoop(Tail(articles), seen_urls, unique)

\* a dedup that forgets the seen_urls test
MutKeepDuplicates(articles) == SelectSeq(articles, LAMBDA a : a.url # <<>>)

_remove_duplicates(articles) == RemoveLoop(articles, {}, <<>>)

\* an extend that inserts at the front
MutExtendFront(all, articles) == articles \o all

\* all_articles.extend(articles)
Extend(all, articles) == all \o articles

\* one invocation of a fetcher by the manager
Invocation(shape, keywords, limit) == [shape |-> shape, keywords |-> keywords, limit |-> limit]

\* The call the try block of the loop makes for one fetcher: none (the
\* fetcher is passed over with continue) or the shape with its arguments.
FetchDispatch(fetcher, cfg, max_per_source) ==
    IF HasKeywordMethod(fetcher)
    THEN IF cfg # "full" THEN <<>>
         ELSE IF ContainsLower(fetcher.source_name, "naver")
              THEN <<Invocation("fetch_articles_by_keywords", NAVER_KEYWORDS,
                                MAX_NAVER_PER_KEYWORD)>>
         ELSE IF ContainsLower(fetcher.source_name, "google")
              THEN <<Invocation("fetch_articles_by_keywords", GOOGLE_KEYWORDS,
                                MAX_GOOGLE_PER_KEYWORD)>>
         ELSE <<>>
    ELSE <<Invocation("fetch_articles", <<>>, max_per_source)>>

\* the outcomes the dispatched call can have
DispatchOutcomes(fetcher, calls) ==
    IF calls = <<>> THEN {Outcome(FALSE, <<>>, <<>>)}
    ELSE IF calls[1].shape = "fetch_articles"
         THEN FetchArticlesOutcomes(fetcher, calls[1].limit)
         ELSE FetchByKeywordsOutcomes(fetcher, calls[1].keywords, calls[1].limit)

\* the warning of the loop when the keyword configuration cannot be imported
DispatchLog(fetcher, cfg) ==
    IF HasKeywordMethod(fetcher) /\ cfg # "full"
    THEN <<LogLine("logger", "warning", fetcher.source_name, "no keyword configuration")>>
    ELSE <<>>

\* an error boundary that swallows the exception without a record
MutExceptSilent(fetcher, out) ==
    [propagate |-> FALSE, articles |-> IF out.raised THEN <<>> ELSE out.articles,
     log |-> out.log]

\* "except Exception" of the loop: log and continue; propagate is TRUE when
\* the exception leaves fetch_all_articles
FetchExcept(fetcher, out) ==
    [propagate |-> FALSE, articles |-> IF out.raised THEN <<>> ELSE out.articles,
     log |-> IF out.raised
             THEN out.log \o <<LogLine("logger", "error", fetcher.source_name,
                                       "collection failed")>>
             ELSE out.log]

(***************************************************************************)
(* SourceFetcherFactory.  A configuration entry is a dict: type and status *)
(* are Absent when the key is missing, has_url tells whether 'url' is      *)
(* present, extra holds the credentials found under 'extra' (top level)    *)
(* and under a nested 'extra' key of it.                                   *)
(***************************************************************************)
Absent == "<absent>"

\* dict.get(key, default)
Get(value, default) == IF value = Absent THEN default ELSE value

Source(name, type, status, has_url, url, extra) ==
    [name |-> name, type |-> type, status |-> status, has_url |-> has_url,
     url |-> url, extra |-> extra,
     selectors |-> Selectors(Absent, Absent, Absent)]

Extra(client_id, client_secret, nested_id, nested_secret) ==
    [client_id |-> client_id, client_secret |-> client_secret,
     nested_id |-> nested_id, nested_secret |-> nested_secret]

NoExtra == Extra(<<>>, <<>>, <<>>, <<>>)

NoFetcher == Fetcher("None", <<>>, <<>>, <<>>, <<>>)

\* the _fetchers mapping of the class body
DefaultRegistry ==
    [rss |-> "RSSFetcher", web |-> "WebScraperFetcher",
     naver |-> "NaverFetcher", google |-> "GoogleFetcher"]

\* the outcome of a factory call (input: the entry create was called with)
Made(op, raised, error, fetcher, manager) ==
    [op |-> op, input |-> Source(<<>>, Absent, Absent, FALSE, <<>>, NoExtra),
     raised |-> raised, error |-> error, fetcher |-> fetcher, manager |-> manager]

\* Instantiating a class: the version7 WebScraperFetcher leaves the abstract
\* fetch_articles undefined and cannot be instantiated.
Instantiable(cls) == cls # "WebScraperFetcherV7"

\* NaverFetcher.__init__ reads the credentials under the 'extra' keyword
NaverFetcher_init(kwargs) ==
    Fetcher("NaverFetcher", NaverName, <<>>, kwargs.nested_id, kwargs.nested_secret)

GoogleFetcher_init(kwargs) == Fetcher("GoogleFetcher", GoogleName, <<>>, <<>>, <<>>)

\* source_config.get('article_selector', '') and its like
SelectorArgument(value) == Get(value, "")

\* SourceFetcherFactory.create, for a type tag found in the registry
CreateDispatch(reg, source_name, source_config) ==
    LET source_type == source_config.type
        fetcher_class == reg[source_type]
    IN IF ~Instantiable(fetcher_class)
       THEN Made("create", TRUE, "TypeError", NoFetcher, <<>>)
       ELSE IF source_type = "rss"
       THEN IF ~source_config.has_url
            THEN Made("create", TRUE, "KeyError", NoFetcher, <<>>)
            ELSE Made("create", FALSE, "",
                      Fetcher(fetcher_class, source_name, source_config.url, <<>>, <<>>), <<>>)
       ELSE IF source_type = "web"
       THEN IF ~source_config.has_url
            THEN Made("create", TRUE, "KeyError", NoFetcher, <<>>)
            ELSE Made("create", FALSE, "",
                      WebScraperFetcher_init(
                          source_name, source_config.url,
                          SelectorArgument(source_config.selectors.article_selector),
                          SelectorArgument(source_config.selectors.title_selector),
                          SelectorArgument(source_config.selectors.link_selector)), <<>>)
       ELSE IF source_type \in {"naver", "google"}
       THEN IF fetcher_class = "NaverFetcher"
            THEN Made("create", FALSE, "", NaverFetcher_init(source_config.extra), <<>>)
            ELSE IF fetcher_class = "GoogleFetcher"
            THEN Made("create", FALSE, "", GoogleFetcher_init(source_config.extra), <<>>)
            ELSE Made("create", TRUE, "TypeError", NoFetcher, <<>>)
       ELSE Made("create", FALSE, "",
                 Fetcher(fetcher_class, source_name,
                         IF source_config.has_url THEN source_config.url ELSE <<>>,
                         <<>>, <<>>), <<>>)

\* the registry lookup of create: "if source_type not in cls._fetchers"
TypeKnown(reg, source_type) == source_type \in DOMAIN reg

\* a create that returns None for an unknown type
MutCreateSilent(reg, source_name, source_config) ==
    IF ~TypeKnown(reg, source_config.type)
    THEN Made("create", FALSE, "", NoFetcher, <<>>)
    ELSE CreateDispatch(reg, source_name, source_config)

create(reg, source_name, source_config) ==
    IF ~TypeKnown(reg, source_config.type)
    THEN Made("create", TRUE, "ValueError", NoFetcher, <<>>)
    ELSE CreateDispatch(reg, source_name, source_config)

\* a status test that also lets 'testing' entries through
MutActiveOrTesting(source_config) ==
    Get(source_config.status, "inactive") \in {"active", "testing"}

\* the status test of create_manager_from_config
IsActive(source_config) == Get(source_config.status, "inactive") = "active"

\* a loop without the try block: the exception of create leaves it
MutCreateReraise(made_one) == [propagate |-> TRUE]

\* "except Exception" of create_manager_from_config: log and continue
CreateExcept(made_one) == [propagate |-> FALSE]

RECURSIVE ManagerLoop(_, _, _, _)
\* the for loop over NEWS_SOURCES.items(), from the k-th entry on
ManagerLoop(reg, sources, k, manager) ==
    IF k > Len(sources) THEN Made("create_manager_from_config", FALSE, "", NoFetcher, manager)
    ELSE IF ~IsActive(sources[k]) THEN ManagerLoop(reg, sources, k + 1, manager)
    ELSE LET one == create(reg, sources[k].name, sources[k])
         IN IF ~one.raised
            THEN ManagerLoop(reg, sources, k + 1, Append(manager, one.fetcher))
            ELSE IF CreateExcept(one).propagate
            THEN Made("create_manager_from_config", TRUE, one.error, NoFetcher, manager)
            ELSE ManagerLoop(reg, sources, k + 1, manager)

create_manager_from_config(reg, cfg, sources) ==
    IF cfg = "missing"
    THEN Made("create_manager_from_config", TRUE, "ImportError", NoFetcher, <<>>)
    ELSE ManagerLoop(reg, sources, 1, <<>>)

(***************************************************************************)
(* Inputs of the direct fetcher calls.                                     *)
(***************************************************************************)
\* the sequences of length at most n over a set
SeqsUpTo(S, n) == UNION {SeqsOfLen(S, k) : k \in 0..n}

FeedEntries ==
    {Entry(TRUE, t, TRUE, l) : t \in {<<>>, <<"t1">>}, l \in {<<>>, UrlA, UrlFtp, UrlRel}}
    \cup {Entry(FALSE, <<>>, TRUE, UrlB), Entry(TRUE, <<"t1">>, FALSE, <<>>)}

Feeds == {[raises |-> FALSE, entries |-> es] : es \in SeqsUpTo(FeedEntries, MaxEntries)}
         \cup {[raises |-> TRUE, entries |-> <<>>]}

PageBlocks ==
    {Block(TRUE, t, TRUE, h) : t \in {<<" ">>, <<"t1">>},
                               h \in {<<>>, UrlA, UrlRel, UrlBare, UrlHttpx}}
    \cup {Block(FALSE, <<>>, TRUE, UrlA), Block(TRUE, <<"t1">>, FALSE, <<>>)}

Pages == {[status |-> "ok", blocks |-> bs] : bs \in SeqsUpTo(PageBlocks, MaxEntries)}
         \cup {[status |-> st, blocks |-> <<>>] : st \in {"http_error", "net_error"}}

RSSFetchers == {Fetcher("RSSFetcher", n, UrlA, <<>>, <<>>) : n \in {<<"s1">>, <<>>}}

WebFetchers ==
    {WebScraperFetcher_init(<<"s2">>, u, "article", "h2", "a") : u \in {PageUrl, UrlFtp \o <<"/">>}}
    \cup {WebScraperFetcher_init(<<"s2">>, PageUrl, "", "h2", "a"),
          WebScraperFetcher_init(<<"s2">>, PageUrl, "article", "h2", "")}

\* NaverFetcher(extra={...}) with and without each credential, and
\* NaverFetcher(client_id=..., client_secret=...)
NaverKwargs == {Extra(<<>>, <<>>, id, secret) :
                   id \in {<<>>, <<"id">>}, secret \in {<<>>, <<"secret">>}}
               \cup {Extra(<<"id">>, <<"secret">>, <<>>, <<>>)}

NaverFetchers == {NaverFetcher_init(kwargs) : kwargs \in NaverKwargs}

NaverItems == {RawItem(<<"<b>", "t1", "</b>">>, UrlA), RawItem(<<"<b>", "</b>">>, UrlA),
               RawItem(<<"t2">>, UrlFtp)}

NaverResponses ==
    {NaverResponse("http", 200, TRUE, items) : items \in SeqsUpTo(NaverItems, MaxEntries)}
    \cup {NaverResponse("http", st, TRUE, <<>>) : st \in {401, 403, 429, 500}}
    \cup {NaverResponse("net_error", 0, FALSE, <<>>), NaverResponse("http", 200, FALSE, <<>>)}

GoogleBlocks == {Block(TRUE, <<"t1">>, TRUE, UrlRedirect), Block(TRUE, <<" ">>, TRUE, UrlA),
                 Block(TRUE, <<"t2">>, TRUE, UrlSearch)}

GoogleResponses ==
    {GoogleResponse("http", 200, bs, <<>>, <<>>) : bs \in SeqsUpTo(GoogleBlocks, MaxEntries)}
    \cup {GoogleResponse("http", 200, <<>>, <<Block(TRUE, <<"t2">>, TRUE, UrlA)>>, <<>>),
          GoogleResponse("http", 200, <<>>, <<>>, <<Block(FALSE, <<>>, TRUE, UrlA),
                                                    Block(TRUE, <<"t2">>, TRUE, UrlB)>>),
          GoogleResponse("http", 500, <<>>, <<>>, <<>>),
          GoogleResponse("net_error", 0, <<>>, <<>>, <<>>)}

\* keyword lists: the first n keywords of k1, k2, k1, k2, ...
KeywordList(n) == [i \in 1..n |-> IF i % 2 = 1 THEN <<"k1">> ELSE <<"k2">>]

KeywordLists == {KeywordList(n) : n \in 0..MaxKeywords}

Limits == 0..MaxArticles

\* the record of a direct call
Call(op, self, limit, keywords, input, out) ==
    [op |-> op, self |-> self, limit |-> limit, keywords |-> keywords,
     input |-> input, out |-> out]

NoCall == Call("none", NoFetcher, 0, <<>>, <<>>, Outcome(FALSE, <<>>, <<>>))

NoMade == Made("none", FALSE, "", NoFetcher, <<>>)

(***************************************************************************)
(* version4: NewsFetcher objects carry status and error_message; the       *)
(* fetchers built by create_fetchers_from_config are RSSFetcher and        *)
(* NaverNewsFetcher.  None is written "None".                              *)
(***************************************************************************)
\* NewsFetcher.__init__
NewsFetcher(cls, source_name) ==
    [cls |-> cls, source_name |-> source_name, status |-> "Unknown",
     error_message |-> "None"]

\* NaverNewsFetcher.__init__: the source name carries the keyword
NaverNewsFetcher_init(keyword) ==
    NewsFetcher("NaverNewsFetcher", <<"neibeonyuseu", "(">> \o keyword \o <<")">>)

\* a version4 article dict
V4Article(title, url, source) == [title |-> title, url |-> url, source |-> source]

\* what a fetch_articles call leaves: the returned list and the fetcher's
\* status and error_message after it
Fetched(articles, status, error_message) ==
    [articles |-> articles, status |-> status, error_message |-> error_message]

\* version4 RSSFetcher.fetch_articles.  What the feed URL answers: kind is
\* "ok", "timeout", "connection" or "http_error"; bozo and entries are what
\* feedparser.parse gives.
V4_RSSFetcher_fetch_articles(self, feed) ==
    CASE feed.kind = "timeout" -> Fetched(<<>>, "Failed", "Timeout")
      [] feed.kind = "connection" -> Fetched(<<>>, "Failed", "Connection Error")
      [] feed.kind = "http_error" -> Fetched(<<>>, "Failed", "HTTP error")
      [] OTHER ->
            \* "if feed.bozo: self.status = 'Partial'" is overwritten by the
            \* assignments of both branches below
            LET built == [i \in 1..Len(feed.entries) |->
                            V4Article(IF feed.entries[i].has_title
                                      THEN feed.entries[i].title ELSE DefaultTitle,
                                      IF feed.entries[i].has_link
                                      THEN feed.entries[i].link ELSE <<>>,
                                      self.source_name)]
            IN IF feed.entries = <<>>
               THEN Fetched(<<>>, "Failed", "Empty feed")
               ELSE Fetched(SelectSeq(built, LAMBDA a : a.url # <<>>),
                            "Success", self.error_message)

\* version4 NaverNewsFetcher.fetch_articles.  What the search page answers:
\* kind "ok" or "error", and the .news_tit elements with text and href.
V4_NaverNewsFetcher_fetch_articles(self, page) ==
    IF page.kind # "ok" THEN Fetched(<<>>, "Failed", "HTTP error")
    ELSE LET cut == Slice(page.news_items, 10)
             built == [i \in 1..Len(cut) |->
                         V4Article(cut[i].title, cut[i].link, self.source_name)]
         IN Fetched(SelectSeq(built, LAMBDA a : a.title # <<>> /\ a.url # <<>>),
                    "Success", self.error_message)

\* the limit_per_source argument: None, or an integer
NoLimit == [none |-> TRUE, value |-> 0]

\* a truncation that slices whenever a limit is given
MutTruncateAlways(articles, limit_per_source) ==
    IF limit_per_source.none THEN articles ELSE Slice(articles, limit_per_source.value)

\* "if limit_per_source and len(articles) > limit_per_source:
\*      articles = articles[:limit_per_source]"
Truncate(articles, limit_per_source) ==
    IF /\ ~limit_per_source.none
       /\ limit_per_source.value # 0
       /\ Len(articles) > limit_per_source.value
    THEN Slice(articles, limit_per_source.value)
    ELSE articles

\* SourceManager.__init__, with the position of fetch_all_articles and what
\* the call has seen: per fetcher the answer of its source and the list it
\* returned
SourceManager_init ==
    [fetchers |-> <<>>, pc |-> "idle", limit_per_source |-> NoLimit, idx |-> 1,
     all_articles |-> <<>>, failed_sources |-> <<>>, answered |-> <<>>,
     fetched |-> <<>>, returned |-> <<>>]

V4Fetchers ==
    {NewsFetcher("RSSFetcher", <<"s1">>), NewsFetcher("RSSFetcher", <<"s2">>),
     NaverNewsFetcher_init(<<"k1">>)}

V4Feeds ==
    {[kind |-> "ok", bozo |-> b, entries |-> es] :
        b \in BOOLEAN,
        es \in {<<>>, <<EntryA1>>, <<EntryA1, EntryB2>>,
                <<Entry(TRUE, <<"t1">>, FALSE, <<>>), Entry(FALSE, <<>>, TRUE, UrlB)>>}}
    \cup {[kind |-> k, bozo |-> FALSE, entries |-> <<>>] :
             k \in {"timeout", "connection", "http_error"}}

V4Pages ==
    {[kind |-> "ok", news_items |-> <<RawItem(<<"t1">>, UrlA), RawItem(<<>>, UrlB),
                                      RawItem(<<"t2">>, UrlB)>>],
     [kind |-> "ok", news_items |-> <<>>],
     [kind |-> "error", news_items |-> <<>>]}

V4Limits == {NoLimit} \cup {[none |-> FALSE, value |-> n] : n \in (0..MaxArticles) \cup {-1}}

(***************************************************************************)
(* Initial state: the factory class is loaded, the manager is constructed. *)
(***************************************************************************)
InitCommon ==
    /\ registry = DefaultRegistry
    /\ fetchers = <<>>
    /\ pc = "idle"
    /\ args = [max_per_source |-> 5, max_per_keyword |-> 3]
    /\ idx = 1
    /\ all_articles = <<>>
    /\ returned = <<>>
    /\ invoked = <<>>
    /\ threw = <<>>
    /\ unique_articles = <<>>
    /\ call = NoCall
    /\ made = NoMade
    /\ log = <<>>
    /\ logsDir \in BOOLEAN
    /\ sourceManager = SourceManager_init

Init ==
    /\ InitCommon
    /\ NEWS_SOURCES = <<>>
    /\ configModule \in {"full", "no_keywords"}

(***************************************************************************)
(* Direct calls of the fetchers' fetch methods, one call per behaviour.     *)
(***************************************************************************)
unitUnchanged == <<sourceManager, logsDir, registry, NEWS_SOURCES, configModule, fetchers, pc, args, idx,
                   all_articles, returned, invoked, threw, unique_articles, made>>

CallRSS ==
    /\ call = NoCall
    /\ \E self \in RSSFetchers, feed \in Feeds, n \in Limits :
        /\ call' = Call("RSSFetcher.fetch_articles", self, n, <<>>, feed,
                        RSSFetcher_fetch_articles(self, feed, n))
        /\ log' = log \o call'.out.log
        /\ UNCHANGED unitUnchanged

CallWeb ==
    /\ call = NoCall
    /\ \E self \in WebFetchers, page \in Pages, n \in Limits :
        /\ call' = Call("WebScraperFetcher.fetch_articles", self, n, <<>>, page,
                        WebScraperFetcher_fetch_articles(self, page, n))
        /\ log' = log \o call'.out.log
        /\ UNCHANGED unitUnchanged

CallWebV7 ==
    /\ call = NoCall
    /\ \E self \in WebFetchers, page \in Pages, n \in Limits :
        /\ call' = Call("WebScraperFetcher.fetch", self, n, <<>>, page,
                        WebScraperFetcher_fetch(self, page, n))
        /\ log' = log \o call'.out.log
        /\ UNCHANGED unitUnchanged

CallNaver ==
    /\ call = NoCall
    /\ \E self \in NaverFetchers, ks \in KeywordLists, n \in 1..MaxArticles :
        \E rs \in SeqsOfLen(NaverResponses, Len(ks)) :
            /\ call' = Call("NaverFetcher.fetch_articles_by_keywords", self, n, ks, rs,
                            NaverFetcher_fetch_articles_by_keywords(self, ks, rs, n))
            /\ log' = log \o call'.out.log
        /\ UNCHANGED unitUnchanged

CallGoogle ==
    /\ call = NoCall
    /\ \E ks \in KeywordLists, n \in 1..MaxArticles :
        \E rs \in SeqsOfLen(GoogleResponses, Len(ks)) :
            /\ call' = Call("GoogleFetcher.fetch_articles_by_keywords",
                            GoogleFetcher_init(NoExtra), n, ks, rs,
                            GoogleFetcher_fetch_articles_by_keywords(
                                GoogleFetcher_init(NoExtra), ks, rs, n))
            /\ log' = log \o call'.out.log
        /\ UNCHANGED unitUnchanged

\* fetch_articles called on a keyword-search fetcher
CallLimitOnAPI ==
    /\ call = NoCall
    /\ \E self \in NaverFetchers \cup {GoogleFetcher_init(NoExtra)}, n \in Limits :
        /\ call' = Call("APIFetcher.fetch_articles", self, n, <<>>, <<>>,
                        APIFetcher_fetch_articles(self, n))
        /\ log' = log \o call'.out.log
        /\ UNCHANGED unitUnchanged

\* fetch_articles_by_keywords called on a feed or markup fetcher: the
\* classes define no such method and the attribute lookup raises
CallKeywordsOnLimitFetcher ==
    /\ call = NoCall
    /\ \E self \in RSSFetchers \cup WebFetchers, ks \in KeywordLists, n \in 1..MaxArticles :
        /\ ~HasKeywordMethod(self)
        /\ call' = Call("fetch_articles_by_keywords", self, n, ks, <<>>,
                        Raises("AttributeError"))
        /\ log' = log \o call'.out.log
        /\ UNCHANGED unitUnchanged

NextFetcher ==
    \/ CallRSS \/ CallWeb \/ CallWebV7 \/ CallNaver \/ CallGoogle
    \/ CallLimitOnAPI \/ CallKeywordsOnLimitFetcher

SpecFetcher == Init /\ [][NextFetcher]_vars

(***************************************************************************)
(* The manager: add_fetcher and fetch_all_articles, one fetcher of the     *)
(* loop per step.                                                          *)
(***************************************************************************)
FetcherObjects ==
    {Fetcher("RSSFetcher", <<"s1">>, UrlA, <<>>, <<>>),
     WebScraperFetcher_init(<<"s2">>, PageUrl, "article", "h2", "a"),
     Fetcher("NaverFetcher", NaverName, <<>>, <<"id">>, <<"secret">>),
     GoogleFetcher_init(NoExtra),
     Fetcher("CustomFetcher", <<"c1">>, <<>>, <<>>, <<>>),
     Fetcher("CustomAPIFetcher", <<"Naver", "Api">>, <<>>, <<>>, <<>>),
     Fetcher("CustomAPIFetcher", <<"Google", "Api">>, <<>>, <<>>, <<>>)}

add_fetcher(fetcher) ==
    /\ pc = "idle"
    /\ Len(fetchers) < MaxFetchers
    /\ fetchers' = Append(fetchers, fetcher)
    /\ UNCHANGED <<sourceManager, logsDir, log, registry, NEWS_SOURCES, configModule, pc, args, idx, all_articles,
                   returned, invoked, threw, unique_articles, call, made>>

AddFetcher == \E fetcher \in FetcherObjects : add_fetcher(fetcher)

\* fetch_all_articles is entered: all_articles = []
FetchBegin ==
    /\ pc = "idle"
    /\ \E mps \in (1..MaxArticles) \cup {ScenarioLimit}, mpk \in {1, 3} :
           args' = [max_per_source |-> mps, max_per_keyword |-> mpk]
    /\ pc' = "loop"
    /\ idx' = 1
    /\ all_articles' = <<>>
    /\ returned' = <<>>
    /\ invoked' = <<>>
    /\ threw' = <<>>
    /\ UNCHANGED <<sourceManager, logsDir, log, registry, NEWS_SOURCES, configModule, fetchers, unique_articles,
                   call, made>>

\* one iteration of "for fetcher in self.fetchers"
FetchOne ==
    /\ pc = "loop"
    /\ idx <= Len(fetchers)
    /\ LET fetcher == fetchers[idx]
           calls == FetchDispatch(fetcher, configModule, args.max_per_source)
       IN \E out \in DispatchOutcomes(fetcher, calls) :
            LET caught == FetchExcept(fetcher, out)
            IN /\ invoked' = Append(invoked, calls)
               /\ log' = log \o DispatchLog(fetcher, configModule) \o caught.log
               /\ returned' = Append(returned, IF out.raised THEN <<>> ELSE out.articles)
               /\ threw' = Append(threw, out.raised)
               /\ all_articles' = Extend(all_articles, caught.articles)
               /\ idx' = idx + 1
               /\ pc' = IF caught.propagate THEN "raised" ELSE "loop"
    /\ UNCHANGED <<sourceManager, logsDir, registry, NEWS_SOURCES, configModule, fetchers, args,
                   unique_articles, call, made>>

\* after the loop: the duplicates are removed and the list is returned
FetchReturn ==
    /\ pc = "loop"
    /\ idx > Len(fetchers)
    /\ unique_articles' = _remove_duplicates(all_articles)
    /\ pc' = "done"
    /\ UNCHANGED <<sourceManager, logsDir, log, registry, NEWS_SOURCES, configModule, fetchers, args, idx, all_articles,
                   returned, invoked, threw, call, made>>

Next == AddFetcher \/ FetchBegin \/ FetchOne \/ FetchReturn

Spec == Init /\ [][Next]_vars

(***************************************************************************)
(* The factory: register_fetcher, create on an entry of the configuration, *)
(* create_manager_from_config.                                             *)
(***************************************************************************)
SourceName(k) == <<CASE k = 1 -> "n1" [] k = 2 -> "n2" [] k = 3 -> "n3" [] OTHER -> "n4">>

\* the entries a configuration is made of (the name is set by position)
SourceKinds ==
    {Source(<<>>, t, "active", TRUE, UrlA, NoExtra) :
        t \in {"rss", "naver", "google", "custom", "bogus", Absent}}
    \cup {[Source(<<>>, "web", "active", TRUE, PageUrl, NoExtra) EXCEPT !.selectors = sel] :
            sel \in {Selectors("article", "h2", "a"), Selectors(Absent, "h2", "a"),
                     Selectors("article", Absent, "a"), Selectors("article", "h2", Absent)}}
    \cup {Source(<<>>, "rss", "active", FALSE, <<>>, NoExtra),
          Source(<<>>, "naver", "active", FALSE, <<>>,
                 Extra(<<"id">>, <<"secret">>, <<>>, <<>>))}
    \cup {Source(<<>>, t, st, TRUE, UrlA, NoExtra) :
            t \in {"rss", "bogus"}, st \in {"disabled", "testing", Absent}}

Configurations ==
    {[k \in 1..Len(kinds) |-> [kinds[k] EXCEPT !.name = SourceName(k)]] :
        kinds \in SeqsUpTo(SourceKinds, MaxSources)}

InitFactory ==
    /\ InitCommon
    /\ NEWS_SOURCES \in Configurations
    /\ configModule \in {"full", "missing"}

\* a registration that replaces the whole mapping by the new pair
MutRegisterAlone(source_type, fetcher_class) ==
    /\ made = NoMade
    /\ registry' = (source_type :> fetcher_class)
    /\ UNCHANGED <<sourceManager, logsDir, log, NEWS_SOURCES, configModule, fetchers, pc, args, idx,
                   all_articles, returned, invoked, threw, unique_articles, call, made>>

register_fetcher(source_type, fetcher_class) ==
    /\ made = NoMade
    /\ registry' = (source_type :> fetcher_class) @@ registry
    /\ UNCHANGED <<sourceManager, logsDir, log, NEWS_SOURCES, configModule, fetchers, pc, args, idx, all_articles,
                   returned, invoked, threw, unique_articles, call, made>>

RegisterFetcher ==
    \/ \E cls \in {"CustomFetcher", "WebScraperFetcherV7"} : register_fetcher("custom", cls)
    \/ register_fetcher("web", "WebScraperFetcherV7")

\* create(name, NEWS_SOURCES[name])
Create ==
    /\ made = NoMade
    /\ configModule # "missing"
    /\ \E k \in 1..Len(NEWS_SOURCES) :
           made' = [create(registry, NEWS_SOURCES[k].name, NEWS_SOURCES[k])
                       EXCEPT !.input = NEWS_SOURCES[k]]
    /\ UNCHANGED <<sourceManager, logsDir, log, registry, NEWS_SOURCES, configModule, fetchers, pc, args, idx,
                   all_articles, returned, invoked, threw, unique_articles, call>>

CreateManager ==
    /\ made = NoMade
    /\ made' = create_manager_from_config(registry, configModule, NEWS_SOURCES)
    /\ UNCHANGED <<sourceManager, logsDir, log, registry, NEWS_SOURCES, configModule, fetchers, pc, args, idx,
                   all_articles, returned, invoked, threw, unique_articles, call>>

NextFactory == RegisterFetcher \/ Create \/ CreateManager

SpecFactory == InitFactory /\ [][NextFactory]_vars

(***************************************************************************)
(* The version4 SourceManager: add_fetcher and fetch_all_articles, one     *)
(* fetcher of the loop per step.                                           *)
(***************************************************************************)
v4Unchanged == <<registry, NEWS_SOURCES, configModule, fetchers, pc, args, idx, all_articles,
                 returned, invoked, threw, unique_articles, call, made, log, logsDir>>

SourceManager_add_fetcher ==
    /\ sourceManager.pc = "idle"
    /\ Len(sourceManager.fetchers) < MaxFetchers
    /\ \E fetcher \in V4Fetchers :
          sourceManager' = [sourceManager EXCEPT !.fetchers = Append(@, fetcher)]
    /\ UNCHANGED v4Unchanged

\* fetch_all_articles is entered: all_articles = [], failed_sources = []
V4FetchBegin ==
    /\ sourceManager.pc = "idle"
    /\ \E limit \in V4Limits :
          sourceManager' = [sourceManager EXCEPT !.pc = "loop", !.limit_per_source = limit,
                                                 !.idx = 1, !.all_articles = <<>>,
                                                 !.failed_sources = <<>>]
    /\ UNCHANGED v4Unchanged

\* one iteration of "for fetcher in self.fetchers"
V4FetchOne ==
    /\ sourceManager.pc = "loop"
    /\ sourceManager.idx <= Len(sourceManager.fetchers)
    /\ LET fetcher == sourceManager.fetchers[sourceManager.idx]
       IN \E answer \in (IF fetcher.cls = "RSSFetcher" THEN V4Feeds ELSE V4Pages) :
            LET got == IF fetcher.cls = "RSSFetcher"
                       THEN V4_RSSFetcher_fetch_articles(fetcher, answer)
                       ELSE V4_NaverNewsFetcher_fetch_articles(fetcher, answer)
                articles == Truncate(got.articles, sourceManager.limit_per_source)
            IN sourceManager' =
                 [sourceManager EXCEPT
                    !.fetchers[sourceManager.idx].status = got.status,
                    !.fetchers[sourceManager.idx].error_message = got.error_message,
                    !.failed_sources =
                        IF got.status = "Failed"
                        THEN Append(@, [source |-> fetcher.source_name,
                                        error |-> got.error_message])
                        ELSE @,
                    !.all_articles = @ \o articles,
                    !.answered = Append(@, answer),
                    !.fetched = Append(@, got.articles),
                    !.idx = @ + 1]
    /\ UNCHANGED v4Unchanged

\* after the loop: the failed sources are printed, all_articles is returned
V4FetchReturn ==
    /\ sourceManager.pc = "loop"
    /\ sourceManager.idx > Len(sourceManager.fetchers)
    /\ sourceManager' = [sourceManager EXCEPT !.pc = "done",
                                              !.returned = sourceManager.all_articles]
    /\ UNCHANGED v4Unchanged

\* the state after "manager = SourceManager()"
InitV4 ==
    /\ InitCommon
    /\ NEWS_SOURCES = <<>>
    /\ configModule = "full"
    /\ logsDir

NextV4 == SourceManager_add_fetcher \/ V4FetchBegin \/ V4FetchOne \/ V4FetchReturn

SpecV4 == InitV4 /\ [][NextV4]_vars

\* C27: _remove_duplicates only removes and is idempotent: the list it
\* returns is a subsequence of the list it is given, and applying it to
\* that result gives the result back.
C27_RemoveDuplicatesIdempotent ==
    LET RECURSIVE IsSubsequence(_, _)
        IsSubsequence(ys, xs) ==
            IF ys = <<>> THEN TRUE
            ELSE IF xs = <<>> THEN FALSE
            ELSE IF Head(ys) = Head(xs) THEN IsSubsequence(Tail(ys), Tail(xs))
            ELSE IsSubsequence(ys, Tail(xs))
    IN pc = "done" =>
          /\ IsSubsequence(unique_articles, all_articles)
          /\ _remove_duplicates(unique_articles) = unique_articles

\* C27 witness: a finished run in which _remove_duplicates was given a list
\* with a repeated url and an empty url and returned at least two items.
C27_Witness ==
    /\ pc = "done"
    /\ Len(unique_articles) >= 2
    /\ \E i, j \in 1..Len(all_articles) : i < j /\ all_articles[i].url = all_articles[j].url
                                                /\ all_articles[i].url # <<>>
    /\ \E i \in 1..Len(all_articles) : all_articles[i].url = <<>>

\* C28: the list fetch_all_articles returns holds no item with a missing
\* or empty url, whatever the fetchers returned, and every non-empty url
\* the fetchers returned is the url of an item of it.
C28_NoEmptyUrl ==
    pc = "done" =>
        /\ \A i \in 1..Len(unique_articles) : unique_articles[i].url # <<>>
        /\ \A i \in 1..Len(all_articles) :
              all_articles[i].url # <<>> =>
                 \E m \in 1..Len(unique_articles) :
                    unique_articles[m].url = all_articles[i].url

\* C28 witness: a finished run in which a fetcher returned an item with an
\* empty url between items with urls, and the returned list is not empty.
C28_Witness ==
    /\ pc = "done"
    /\ \E i \in 2..(Len(all_articles) - 1) : all_articles[i].url = <<>>
    /\ unique_articles # <<>>
    /\ Len(unique_articles) < Len(all_articles)

(***************************************************************************)
(* Further properties of the fetchers' fetch calls (SpecFetcher).          *)
(***************************************************************************)

\* C25 as stated: in a markup fetch (selectors configured, page fetched) a
\* block without title element, link element or href is skipped and the
\* call does not fail; every other block among the first max_articles
\* matched blocks yields its item, in document order.
C25_BlockSkipped ==
    (/\ call.op \in {"WebScraperFetcher.fetch_articles", "WebScraperFetcher.fetch"}
     /\ call.input.status = "ok"
     /\ call.self.selectors.article_selector # ""
     /\ call.self.selectors.title_selector # ""
     /\ call.self.selectors.link_selector # "") =>
        LET cut == Slice(call.input.blocks, call.limit)
            complete == SelectSeq(cut, LAMBDA b : b.has_title /\ b.has_link /\ b.href # <<>>)
        IN /\ ~call.out.raised
           /\ Len(call.out.articles) = Len(complete)
           /\ \A i \in 1..Len(complete) :
                 call.out.articles[i] =
                    Article(Strip(complete[i].title), AbsoluteUrl(call.self, complete[i].href),
                            call.self.source_name, <<>>)

\* C25 amended: as above, where in mail_version8's fetch_articles the other
\* blocks that yield their item are those whose item passes validation (a
\* title text that is not blank and a url that starts with http:// or
\* https://); version7's fetch yields the item of every other block.
C25_ValidBlockKept ==
    (/\ call.op \in {"WebScraperFetcher.fetch_articles", "WebScraperFetcher.fetch"}
     /\ call.input.status = "ok"
     /\ call.self.selectors.article_selector # ""
     /\ call.self.selectors.title_selector # ""
     /\ call.self.selectors.link_selector # "") =>
        LET cut == Slice(call.input.blocks, call.limit)
            complete == SelectSeq(cut, LAMBDA b : b.has_title /\ b.has_link /\ b.href # <<>>)
            valid(b) == /\ Strip(b.title) # <<>>
                        /\ call.self.source_name # <<>>
                        /\ \/ StartsWith(AbsoluteUrl(call.self, b.href), HTTP)
                           \/ StartsWith(AbsoluteUrl(call.self, b.href), HTTPS)
            kept == IF call.op = "WebScraperFetcher.fetch_articles"
                    THEN SelectSeq(complete, valid) ELSE complete
        IN /\ ~call.out.raised
           /\ Len(call.out.articles) = Len(kept)
           /\ \A i \in 1..Len(kept) :
                 call.out.articles[i] =
                    Article(Strip(kept[i].title), AbsoluteUrl(call.self, kept[i].href),
                            call.self.source_name, <<>>)

\* C25 witness: a mail_version8 fetch of a page whose first block has no
\* link element and whose second block is complete, which returns the item
\* of the second block.
C25_Witness ==
    /\ call.op = "WebScraperFetcher.fetch_articles"
    /\ call.input.status = "ok"
    /\ Len(call.input.blocks) = 2
    /\ ~call.input.blocks[1].has_link
    /\ call.input.blocks[2].has_title /\ call.input.blocks[2].has_link
    /\ call.limit >= 2
    /\ Len(call.out.articles) = 1
    /\ call.out.articles[1].url = call.input.blocks[2].href

\* C26: every item a keyword-search call returns carries a keyword of the
\* input list and the source label "provider(keyword)" with that keyword,
\* its url comes from the response to a request for that keyword, and the
\* items follow the order of the keyword list: of two items, the earlier
\* comes from a request at the same or an earlier position of the list.
C26_KeywordProvenance ==
    call.op \in {"NaverFetcher.fetch_articles_by_keywords",
                 "GoogleFetcher.fetch_articles_by_keywords"} =>
        LET articles == call.out.articles
            urls(resp) ==
                IF call.op = "NaverFetcher.fetch_articles_by_keywords"
                THEN {resp.items[m].link : m \in 1..Len(resp.items)}
                ELSE LET blocks == resp.sel1 \o resp.sel2 \o resp.sel3
                     IN {blocks[m].href : m \in 1..Len(blocks)}
                        \cup {GoogleCleanUrl(blocks[m].href) : m \in 1..Len(blocks)}
            from(i) == {k \in 1..Len(call.keywords) :
                           /\ call.keywords[k] = articles[i].keyword
                           /\ articles[i].url \in urls(call.input[k])}
        IN /\ \A i \in 1..Len(articles) :
                 /\ from(i) # {}
                 /\ articles[i].source =
                       call.self.source_name \o <<"(">> \o articles[i].keyword \o <<")">>
           /\ \A i, j \in 1..Len(articles) :
                 i < j => \E p \in from(i), q \in from(j) : p <= q

\* C26 witness: a NaverFetcher call on two keywords that returns an item
\* for the first keyword followed by an item for the second.
C26_Witness ==
    /\ call.op = "NaverFetcher.fetch_articles_by_keywords"
    /\ Len(call.keywords) = 2
    /\ Len(call.out.articles) >= 2
    /\ call.out.articles[1].keyword = call.keywords[1]
    /\ call.out.articles[Len(call.out.articles)].keyword = call.keywords[2]
    /\ call.keywords[1] # call.keywords[2]

\* C30: log_error never raises.  No fetch call of RSSFetcher,
\* WebScraperFetcher (mail_version8), NaverFetcher or GoogleFetcher ends
\* with an exception; when logs/failed_sources.txt cannot be opened and the
\* call handled a failure of its source, no line reached the file and the
\* failed append was logged under the fetcher's name.
C30_LogErrorNeverRaises ==
    LET handled ==
            CASE call.op = "RSSFetcher.fetch_articles" -> call.input.raises
              [] call.op = "WebScraperFetcher.fetch_articles" -> call.input.status # "ok"
              [] call.op = "NaverFetcher.fetch_articles_by_keywords" ->
                    /\ call.self.client_id # <<>> /\ call.self.client_secret # <<>>
                    /\ \E k \in 1..Len(call.input) :
                          call.input[k].kind = "net_error" \/ call.input[k].status >= 400
              [] call.op = "GoogleFetcher.fetch_articles_by_keywords" ->
                    \E k \in 1..Len(call.input) :
                        call.input[k].kind = "net_error" \/ call.input[k].status >= 400
              [] OTHER -> FALSE
        lines == call.out.log
    IN call.op \in {"RSSFetcher.fetch_articles", "WebScraperFetcher.fetch_articles",
                    "NaverFetcher.fetch_articles_by_keywords",
                    "GoogleFetcher.fetch_articles_by_keywords"} =>
          /\ ~call.out.raised
          /\ (handled /\ ~logsDir) =>
                /\ \A i \in 1..Len(lines) : lines[i].sink # "failed_sources.txt"
                /\ \E i \in 1..Len(lines) :
                      /\ lines[i].level = "error"
                      /\ lines[i].text = "log write failed"
                      /\ lines[i].source = call.self.source_name

\* C30 witness: an RSSFetcher fetch whose parse raised while the failure
\* file could not be opened, which returned the empty list.
C30_Witness ==
    /\ call.op = "RSSFetcher.fetch_articles"
    /\ call.input.raises
    /\ ~logsDir
    /\ ~call.out.raised
    /\ call.out.articles = <<>>
    /\ Len(call.out.log) = 2

(***************************************************************************)
(* Properties of FetcherManager.fetch_all_articles (specification Spec).   *)
(***************************************************************************)

\* C1: source-failure isolation.  With the keyword configuration present,
\* no exception of a fetcher reaches the caller of fetch_all_articles, a
\* fetcher that raised contributes no item, and every fetcher registered
\* after a raising one is still invoked and the urls of its items are in the
\* returned list.
C1_SourceFailureIsolation ==
    configModule = "full" =>
        /\ pc # "raised"
        /\ \A i \in 1..Len(threw) : threw[i] => returned[i] = <<>>
        /\ \A i \in 1..Len(invoked) :
              (\E j \in 1..(i - 1) : threw[j]) => invoked[i] # <<>>
        /\ pc = "done" =>
              \A i \in 1..Len(returned) :
                 (\E j \in 1..(i - 1) : threw[j]) =>
                    \A n \in 1..Len(returned[i]) :
                       returned[i][n].url # <<>> =>
                          \E m \in 1..Len(unique_articles) :
                             unique_articles[m].url = returned[i][n].url

\* C2: with the keyword configuration present, every fetcher the loop has
\* passed was invoked exactly once with its own call shape: a fetcher with
\* the keyword method through fetch_articles_by_keywords with a keyword list
\* of the configuration, any other through fetch_articles(max_per_source).
C2_EveryFetcherInvokedOnce ==
    configModule = "full" =>
        \A i \in 1..Len(invoked) :
            /\ Len(invoked[i]) = 1
            /\ IF HasKeywordMethod(fetchers[i])
               THEN /\ invoked[i][1].shape = "fetch_articles_by_keywords"
                    /\ invoked[i][1].keywords \in {NAVER_KEYWORDS, GOOGLE_KEYWORDS}
               ELSE /\ invoked[i][1].shape = "fetch_articles"
                    /\ invoked[i][1].limit = args.max_per_source

\* C3: in the returned list no two articles share a url, each article is
\* the first article of all_articles with its url, and the articles are in
\* the order of these first occurrences.
C3_DedupByUrl ==
    pc = "done" =>
        LET all == all_articles
            uni == unique_articles
            IsFirst(i, u) == all[i].url = u /\ \A j \in 1..(i - 1) : all[j].url # u
            First(u) == CHOOSE i \in 1..Len(all) : IsFirst(i, u)
        IN /\ \A k, l \in 1..Len(uni) : k # l => uni[k].url # uni[l].url
           /\ \A k \in 1..Len(uni) :
                 /\ \E i \in 1..Len(all) : IsFirst(i, uni[k].url)
                 /\ uni[k] = all[First(uni[k].url)]
           /\ \A k, l \in 1..Len(uni) :
                 k < l => First(uni[k].url) < First(uni[l].url)

\* C3 witness: a finished run in which two collected articles have the same
\* url and different titles, and two articles are returned.
C3_Witness ==
    /\ pc = "done"
    /\ Len(unique_articles) >= 2
    /\ \E i, j \in 1..Len(all_articles) :
          /\ i < j
          /\ all_articles[i].url = all_articles[j].url
          /\ all_articles[i].url # <<>>
          /\ all_articles[i].title # all_articles[j].title

\* C4: add_fetcher appends to the list of fetchers; all_articles is the
\* concatenation, in that order, of the lists the fetchers returned, each in
\* the order returned; the returned list is a function of it (the articles
\* with a non-empty url not seen before, in order).
C4_ConcatenationOrder ==
    /\ [](LET RECURSIVE Flat(_)
              Flat(k) == IF k = 0 THEN <<>> ELSE Flat(k - 1) \o returned[k]
              all == Flat(Len(returned))
              keep == {i \in 1..Len(all) :
                          /\ all[i].url # <<>>
                          /\ \A j \in 1..(i - 1) : all[j].url # all[i].url}
              Nth(k) == CHOOSE i \in keep : Cardinality({j \in keep : j <= i}) = k
          IN /\ pc \in {"loop", "done"} => all_articles = all
             /\ pc = "done" =>
                   /\ Len(returned) = Len(fetchers)
                   /\ Len(unique_articles) = Cardinality(keep)
                   /\ \A k \in 1..Len(unique_articles) : unique_articles[k] = all[Nth(k)])
    /\ [][fetchers' # fetchers =>
             \E fetcher \in FetcherObjects : fetchers' = Append(fetchers, fetcher)]_vars

\* C4 witness: a finished run in which the first fetcher returned an article
\* and the second returned at least two.
C4_Witness ==
    /\ pc = "done"
    /\ Len(returned) >= 2
    /\ returned[1] # <<>>
    /\ Len(returned[2]) >= 2
    /\ returned[1] # returned[2]

\* C11 as stated: the value fetch_all_articles returns carries, next to the
\* articles, outcome records with a status; when exactly one fetcher raised,
\* exactly one of them has status failed and it names that fetcher.
C11_OutcomesReturned ==
    pc = "done" =>
        LET thrown == {i \in 1..Len(threw) : threw[i]}
            outcomes == SelectSeq(unique_articles, LAMBDA r : "status" \in DOMAIN r)
            failed == SelectSeq(outcomes, LAMBDA r : r.status = "failed")
        IN Cardinality(thrown) = 1 =>
              /\ Len(failed) = 1
              /\ \A i \in thrown : failed[1].source = fetchers[i].source_name

\* C11 amended: fetch_all_articles returns the list of articles alone; the
\* failures are only logged: the error boundary of the loop has logged one
\* "collection failed" record per fetcher that raised, in the order of the
\* fetchers, each naming its fetcher (so exactly one when exactly one raised).
C11_FailureLogged ==
    LET failed == SelectSeq(log, LAMBDA l : l.level = "error" /\ l.text = "collection failed")
        thrown == SelectSeq([i \in 1..Len(threw) |-> i], LAMBDA i : threw[i])
    IN /\ Len(failed) = Len(thrown)
       /\ \A k \in 1..Len(failed) : failed[k].source = fetchers[thrown[k]].source_name
       /\ pc = "done" => \A m \in 1..Len(unique_articles) :
                            DOMAIN unique_articles[m] = {"title", "url", "source", "keyword"}

\* C11 witness: a finished run of three fetchers in which only the second
\* raised and the first and the third returned articles.
C11_Witness ==
    /\ pc = "done"
    /\ threw = <<FALSE, TRUE, FALSE>>
    /\ returned[1] # <<>>
    /\ returned[3] # <<>>
    /\ Len(SelectSeq(log, LAMBDA l : l.text = "collection failed")) = 1

\* C21: the failure file logs/failed_sources.txt is append-only with one
\* line per failure: no step removes or rewrites a line already in it, and
\* every step in which a fetcher's failure reaches the error boundary of the
\* manager's loop appends exactly one line, which names that fetcher.
C21_FailureLogAppendOnly ==
    [][LET file(l) == SelectSeq(l, LAMBDA x : x.sink = "failed_sources.txt")
       IN /\ Len(file(log')) >= Len(file(log))
          /\ SubSeq(file(log'), 1, Len(file(log))) = file(log)
          /\ (Len(threw') = Len(threw) + 1 /\ threw'[Len(threw')]) =>
                /\ Len(file(log')) = Len(file(log)) + 1
                /\ file(log')[Len(file(log'))].source = fetchers[idx].source_name]_vars

C24_MaxPerKeywordApplied ==
    \A i \in 1..Len(invoked) :
        \A c \in 1..Len(invoked[i]) :
            invoked[i][c].shape = "fetch_articles_by_keywords" =>
                invoked[i][c].limit = args.max_per_keyword

(***************************************************************************)
(* Properties of the version4 SourceManager (specification SpecV4).        *)
(***************************************************************************)

\* C23: after the fetch of a feed that parsed with the bozo flag set and
\* has at least one entry, the fetcher's status is Partial, and the entries
\* recovered (those with a link) have been returned, in order.
C23_BozoReportedPartial ==
    \A i \in 1..Len(sourceManager.answered) :
        LET fetcher == sourceManager.fetchers[i]
            feed == sourceManager.answered[i]
        IN (fetcher.cls = "RSSFetcher" /\ feed.kind = "ok" /\ feed.bozo
              /\ feed.entries # <<>>) =>
              LET linked == SelectSeq(feed.entries, LAMBDA e : e.has_link /\ e.link # <<>>)
              IN /\ fetcher.status = "Partial"
                 /\ Len(sourceManager.fetched[i]) = Len(linked)
                 /\ \A k \in 1..Len(linked) :
                       sourceManager.fetched[i][k].url = linked[k].link

\* C29: in the version4 SourceManager.fetch_all_articles with a
\* limit_per_source that is None, 0 or positive, the list collected so far
\* is the concatenation, in fetcher order, of each fetched source's items,
\* cut to the first min(n, k) of its k items when the limit is a positive n
\* and uncut when it is None or 0; the failed-sources report lists, in
\* order, exactly the fetchers whose status after their fetch is Failed,
\* with their error message; and the loop goes on after a failed fetcher:
\* when the call returns, every fetcher has been fetched.
C29_LimitAndFailedSources ==
    LET limit == sourceManager.limit_per_source
        fetched == sourceManager.fetched
        contribution(i) ==
            IF ~limit.none /\ limit.value > 0
            THEN SubSeq(fetched[i], 1, Min(limit.value, Len(fetched[i])))
            ELSE fetched[i]
        RECURSIVE Collected(_)
        Collected(i) == IF i = 0 THEN <<>> ELSE Collected(i - 1) \o contribution(i)
        failed == SelectSeq([i \in 1..Len(fetched) |-> i],
                            LAMBDA i : sourceManager.fetchers[i].status = "Failed")
    IN (limit.none \/ limit.value >= 0) =>
          /\ sourceManager.all_articles = Collected(Len(fetched))
          /\ sourceManager.failed_sources =
                [m \in 1..Len(failed) |->
                    [source |-> sourceManager.fetchers[failed[m]].source_name,
                     error |-> sourceManager.fetchers[failed[m]].error_message]]
          /\ sourceManager.pc = "loop" => Len(fetched) = sourceManager.idx - 1
          /\ sourceManager.pc = "done" =>
                /\ Len(fetched) = Len(sourceManager.fetchers)
                /\ sourceManager.returned = sourceManager.all_articles

\* C29 witness: a returned call with limit 1 on three fetchers, the first
\* of which returned two items, the second of which failed, and the third
\* of which returned items.
C29_Witness ==
    /\ sourceManager.pc = "done"
    /\ sourceManager.limit_per_source = [none |-> FALSE, value |-> 1]
    /\ Len(sourceManager.fetchers) = 3
    /\ Len(sourceManager.fetched[1]) = 2
    /\ sourceManager.fetchers[2].status = "Failed"
    /\ sourceManager.fetched[3] # <<>>
    /\ Len(sourceManager.returned) = 2
    /\ Len(sourceManager.failed_sources) = 1

(***************************************************************************)
(* Properties of the fetchers' fetch calls (specification SpecFetcher).    *)
(***************************************************************************)

C6_LimitInvariant ==
    call.op \in {"RSSFetcher.fetch_articles", "WebScraperFetcher.fetch_articles",
                 "WebScraperFetcher.fetch"} =>
        Len(call.out.articles) <= call.limit

\* C6 witness: a feed offers more valid entries than the limit n >= 1 and
\* the call returned exactly n articles.
C6_Witness ==
    /\ call.op = "RSSFetcher.fetch_articles"
    /\ call.limit >= 1
    /\ Len(call.input.entries) > call.limit
    /\ Len(call.out.articles) = call.limit

\* C7: fetch_articles_by_keywords does not raise; when requests are made
\* (NaverFetcher: credentials set), one is made for every keyword of the
\* list, in order, whatever the earlier ones did; and every valid item of a
\* keyword whose request succeeded is returned, tagged with that keyword.
C7_KeywordIsolation ==
    /\ call.op = "NaverFetcher.fetch_articles_by_keywords" =>
          /\ ~call.out.raised
          /\ HasCredentials(call.self) =>
                /\ call.out.requests = call.keywords
                /\ \A k \in 1..Len(call.keywords) :
                      LET resp == call.input[k]
                      IN (resp.kind = "http" /\ resp.status = 200 /\ resp.json_ok) =>
                            \A n \in 1..Len(resp.items) :
                               LET a == NaverArticle(call.self, call.keywords[k], resp.items[n])
                               IN validate_article(a) =>
                                     \E m \in 1..Len(call.out.articles) :
                                        call.out.articles[m] = a
    /\ call.op = "GoogleFetcher.fetch_articles_by_keywords" =>
          /\ ~call.out.raised
          /\ call.out.requests = call.keywords
          /\ \A k \in 1..Len(call.keywords) :
                LET resp == call.input[k]
                IN (resp.kind = "http" /\ resp.status = 200) =>
                      \A n \in 1..Len(GoogleNewsItems(resp, call.limit)) :
                         LET p == GoogleArticle(call.self, call.keywords[k],
                                                GoogleNewsItems(resp, call.limit)[n])
                         IN GoogleKeep(p) =>
                               \E m \in 1..Len(call.out.articles) :
                                  call.out.articles[m] = p.article

\* C7 witness: the request of the first keyword failed in transport, the
\* second keyword was queried and its article is returned.
C7_Witness ==
    /\ call.op = "NaverFetcher.fetch_articles_by_keywords"
    /\ Len(call.keywords) >= 2
    /\ call.input[1].kind = "net_error"
    /\ call.out.requests = call.keywords
    /\ \E m \in 1..Len(call.out.articles) :
          call.out.articles[m].keyword = call.keywords[2]

\* C15: in a call of fetch_articles_by_keywords(keywords, max_per_keyword)
\* that issues requests, exactly one request is issued per keyword of the
\* list, and the returned articles tagged with a keyword are at most
\* max_per_keyword per request for that keyword, whatever the number of
\* results in the provider's response.
C15_PerKeywordCap ==
    (/\ call.op \in {"NaverFetcher.fetch_articles_by_keywords",
                      "GoogleFetcher.fetch_articles_by_keywords"}
     /\ (call.self.cls = "NaverFetcher" => HasCredentials(call.self))) =>
        /\ call.out.requests = call.keywords
        /\ \A k \in 1..Len(call.keywords) :
              Cardinality({m \in 1..Len(call.out.articles) :
                              call.out.articles[m].keyword = call.keywords[k]})
                 <= call.limit * Cardinality({j \in 1..Len(call.keywords) :
                                                 call.keywords[j] = call.keywords[k]})

\* C16: in a NaverFetcher call with credentials, a response with status
\* 401, 403 or 429 is not fatal: the call does not raise, every keyword of
\* the list is still requested, a keyword all of whose requests got such a
\* status has no article in the result, and for each of the three codes the
\* error records carrying its cause are as many as the responses with that
\* code (each is logged once, with a cause of its own).
C16_StatusCodesNonFatal ==
    (/\ call.op = "NaverFetcher.fetch_articles_by_keywords"
     /\ HasCredentials(call.self)) =>
        LET Handled(k) == call.input[k].kind = "http" /\ call.input[k].status \in {401, 403, 429}
            Lines(text) == {i \in 1..Len(call.out.log) :
                               /\ call.out.log[i].sink = "logger"
                               /\ call.out.log[i].level = "error"
                               /\ call.out.log[i].text = text}
        IN /\ ~call.out.raised
           /\ call.out.requests = call.keywords
           /\ \A k \in 1..Len(call.keywords) :
                 (\A j \in 1..Len(call.keywords) :
                     call.keywords[j] = call.keywords[k] => Handled(j)) =>
                    \A m \in 1..Len(call.out.articles) :
                       call.out.articles[m].keyword # call.keywords[k]
           /\ \A st \in {401, 403, 429} :
                 Cardinality(Lines(NaverStatusCause(st))) =
                    Cardinality({k \in 1..Len(call.keywords) :
                                    Handled(k) /\ call.input[k].status = st})

\* C16 witness: the first keyword was answered with 401 and the second
\* keyword returned an article.
C16_Witness ==
    /\ call.op = "NaverFetcher.fetch_articles_by_keywords"
    /\ HasCredentials(call.self)
    /\ Len(call.keywords) = 2
    /\ call.input[1].status = 401
    /\ call.input[2].status = 200
    /\ \E m \in 1..Len(call.out.articles) :
          call.out.articles[m].keyword = call.keywords[2]

\* C17: within one call of fetch_articles_by_keywords no two requests are
\* issued back to back: between two successive keyword requests there is a
\* pause (a time.sleep call).
C17_PauseBetweenRequests ==
    call.op \in {"NaverFetcher.fetch_articles_by_keywords",
                 "GoogleFetcher.fetch_articles_by_keywords"} =>
        \A i \in 1..(Len(call.out.trace) - 1) :
            ~(call.out.trace[i] = "request" /\ call.out.trace[i + 1] = "request")

\* C18: a feed that parses with zero entries, and a page on which the
\* article selector matches no block, make the fetch return the empty list
\* without raising and record the source as failed (an error record or a
\* line of the failure file) with a reason other than those recorded for a
\* transport failure.
C18_StructuralMismatchRecorded ==
    LET emptyFeed == /\ call.op = "RSSFetcher.fetch_articles"
                     /\ ~call.input.raises
                     /\ call.input.entries = <<>>
        emptyPage == /\ call.op = "WebScraperFetcher.fetch_articles"
                     /\ call.input.status = "ok"
                     /\ call.self.selectors.article_selector # ""
                     /\ call.input.blocks = <<>>
        transport == {"parse error", "HTTP error", "network error"}
    IN (emptyFeed \/ emptyPage) =>
          /\ ~call.out.raised
          /\ call.out.articles = <<>>
          /\ \E i \in 1..Len(call.out.log) :
                /\ call.out.log[i].level = "error" \/ call.out.log[i].sink = "failed_sources.txt"
                /\ call.out.log[i].source = call.self.source_name
                /\ call.out.log[i].text \notin transport

\* C12: a fetcher fails with an unsupported-operation error when the call
\* shape it does not support is invoked: fetch_articles on a keyword-search
\* fetcher raises NotImplementedError, fetch_articles_by_keywords on a feed
\* or markup fetcher raises AttributeError; neither returns items nor issues
\* a request.
C12_UnsupportedShapeRaises ==
    /\ call.op = "APIFetcher.fetch_articles" =>
          /\ HasKeywordMethod(call.self)
          /\ call.out.raised
          /\ call.out.error = "NotImplementedError"
          /\ call.out.articles = <<>>
          /\ call.out.requests = <<>>
    /\ call.op = "fetch_articles_by_keywords" =>
          /\ call.self.cls \in {"RSSFetcher", "WebScraperFetcher"}
          /\ call.out.raised
          /\ call.out.error = "AttributeError"
          /\ call.out.articles = <<>>
          /\ call.out.requests = <<>>

\* C12 witness: fetch_articles was called on a NaverFetcher that holds
\* credentials, and raised.
C12_Witness ==
    /\ call.op = "APIFetcher.fetch_articles"
    /\ call.self.cls = "NaverFetcher"
    /\ HasCredentials(call.self)
    /\ call.limit >= 1
    /\ call.out.raised

\* C13: a NaverFetcher constructed without a client id or without a client
\* secret exists (the constructor did not raise), and a call of its
\* fetch_articles_by_keywords, whatever the keywords and whatever the
\* provider would answer, returns the empty list without raising and without
\* issuing a request, logging that the API key is missing.
C13_MissingCredentials ==
    (/\ call.op = "NaverFetcher.fetch_articles_by_keywords"
     /\ (call.self.client_id = <<>> \/ call.self.client_secret = <<>>)) =>
        /\ call.self \in NaverFetchers
        /\ ~call.out.raised
        /\ call.out.articles = <<>>
        /\ call.out.requests = <<>>
        /\ call.out.trace = <<>>
        /\ \E i \in 1..Len(call.out.log) : call.out.log[i].text = "no API key"

\* C13 witness: a fetcher with a client id and no client secret was asked
\* for two keywords whose requests would have returned items.
C13_Witness ==
    /\ call.op = "NaverFetcher.fetch_articles_by_keywords"
    /\ call.self.client_id # <<>>
    /\ call.self.client_secret = <<>>
    /\ Len(call.keywords) = 2
    /\ \A k \in 1..2 : call.input[k].status = 200 /\ call.input[k].items # <<>>
    /\ call.out.articles = <<>>

(***************************************************************************)
(* Properties of SourceFetcherFactory (specification SpecFactory).         *)
(***************************************************************************)

\* C8: create on an entry whose type is not a key of the registry (or is
\* missing) raises ValueError and returns no fetcher.
C8_UnknownTypeRejected ==
    (made.op = "create" /\ made.input.type \notin DOMAIN registry) =>
        /\ made.raised
        /\ made.error = "ValueError"
        /\ made.fetcher = NoFetcher

\* C8 witness: create was called on an entry without a type and raised.
C8_Witness ==
    /\ made.op = "create"
    /\ made.input.type = Absent
    /\ made.raised

\* C14: create hands the credentials of the entry's 'extra' to the
\* NaverFetcher it builds: for an entry of type naver whose extra holds a
\* client id and a client secret, the fetcher returned holds them, and its
\* fetch_articles_by_keywords issues one request per keyword.
C14_ExtraParamsTakeEffect ==
    (/\ made.op = "create"
     /\ made.input.type = "naver"
     /\ made.input.extra.client_id # <<>>
     /\ made.input.extra.client_secret # <<>>) =>
        /\ ~made.raised
        /\ made.fetcher.client_id = made.input.extra.client_id
        /\ made.fetcher.client_secret = made.input.extra.client_secret
        /\ \A ks \in KeywordLists : \A rs \in SeqsOfLen(RunNaverResponses, Len(ks)) :
              NaverFetcher_fetch_articles_by_keywords(made.fetcher, ks, rs, 1).requests = ks

\* C19: once register_fetcher has added a tag that was not known, create on
\* an entry of that type does not raise the unsupported-type ValueError and,
\* when the registered class can be instantiated, returns an instance of it
\* with the entry's name and url; registering a new tag leaves the class of
\* every tag already known unchanged, and create on a tag that still has
\* its original class does what it does with the original mapping.
C19_RuntimeRegistration ==
    /\ [](made.op = "create" =>
            LET type == made.input.type
            IN /\ (type \in DOMAIN registry /\ type \notin DOMAIN DefaultRegistry) =>
                     /\ made.error # "ValueError"
                     /\ Instantiable(registry[type]) =>
                           /\ ~made.raised
                           /\ made.fetcher.cls = registry[type]
                           /\ made.fetcher.source_name = made.input.name
                           /\ made.fetcher.url = made.input.url
               /\ (type \in DOMAIN DefaultRegistry /\ type \in DOMAIN registry
                      /\ registry[type] = DefaultRegistry[type]) =>
                     made = [create(DefaultRegistry, made.input.name, made.input)
                                EXCEPT !.input = made.input])
    /\ [][DOMAIN registry' # DOMAIN registry =>
             \A t \in DOMAIN registry : t \in DOMAIN registry' /\ registry'[t] = registry[t]]_vars

\* C19 witness: after register_fetcher('custom', CustomFetcher) and
\* nothing else registered, create on an entry of type custom returned a
\* CustomFetcher.
C19_Witness ==
    /\ made.op = "create"
    /\ made.input.type = "custom"
    /\ DOMAIN registry = DOMAIN DefaultRegistry \cup {"custom"}
    /\ registry["custom"] = "CustomFetcher"
    /\ ~made.raised
    /\ made.fetcher.cls = "CustomFetcher"
    /\ made.fetcher.source_name = made.input.name

\* C20: a markup entry that lacks the article, the title or the link
\* selector fails at construction: create on it raises and returns no
\* fetcher, and the manager built from a configuration containing it is
\* still returned, without a fetcher for that entry.
C20_MissingSelectorRejected ==
    LET Lacking(entry) ==
            /\ entry.type = "web"
            /\ entry.has_url
            /\ \/ entry.selectors.article_selector = Absent
               \/ entry.selectors.title_selector = Absent
               \/ entry.selectors.link_selector = Absent
    IN /\ (made.op = "create" /\ Lacking(made.input)) =>
             /\ made.raised
             /\ made.fetcher = NoFetcher
       /\ (made.op = "create_manager_from_config" /\ configModule # "missing") =>
             /\ ~made.raised
             /\ \A k \in 1..Len(NEWS_SOURCES) :
                   Lacking(NEWS_SOURCES[k]) =>
                      \A i \in 1..Len(made.manager) :
                         made.manager[i].source_name # NEWS_SOURCES[k].name

====
